---------------------------- MODULE Spec2Model ----------------------------
(***************************************************************************)
(* A model of Project1a/app/extractor2.py: MultilingualHeadingExtractor    *)
(* (script detection, heading heuristics, font-size clustering, level      *)
(* classification, outline assembly) and the batch driver process_all_pdfs.*)
(*                                                                         *)
(* Conventions                                                             *)
(*  - A Python str is a sequence of Unicode code points (integers).        *)
(*  - A font size is an integer number of HALF POINTS (24 = 12.0 pt), so   *)
(*    1.0 pt = 2, cluster_eps 1.5 pt = 3 and tol 2.0 pt = 4.               *)
(*  - A cluster mean is an exact rational <<num, den>> in lowest terms     *)
(*    with den > 0.  Python computes it in binary floating point; the      *)
(*    model is exact arithmetic.                                           *)
(*  - A dict is a sequence of <<key, value>> pairs in insertion order,     *)
(*    which is the order Python iterates it in.                            *)
(***************************************************************************)
EXTENDS Integers, Sequences, FiniteSets, TLC

VARIABLES
    dir,                     \* the input directory: os.listdir order, name and content
    pc,                      \* where process_all_pdfs is
    pdf_files,               \* the filtered listing
    fidx,                    \* position of the for loop in pdf_files
    title,                   \* locals of extract_outline_from_pdf ...
    all_text_blocks,
    all_font_sizes,
    potential_heading_sizes,
    clustered_sizes,
    headings,
    seen_headings,
    bidx,                    \* position of the for loop in all_text_blocks
    outline,                 \* the value extract_outline_from_pdf returned
    output_dir,              \* the files written: sequence of <<name, outline>>
    log,                     \* the lines printed: sequence of records
    call,                    \* arguments of a direct call of one method
    ret                      \* what that call returned

vars == <<dir, pc, pdf_files, fidx, title, all_text_blocks, all_font_sizes,
          potential_heading_sizes, clustered_sizes, headings, seen_headings,
          bidx, outline, output_dir, log, call, ret>>

batch_vars == <<dir, pc, pdf_files, fidx, title, all_text_blocks, all_font_sizes,
                potential_heading_sizes, clustered_sizes, headings, seen_headings,
                bidx, outline, output_dir, log>>

None == "None"

-----------------------------------------------------------------------------
(* Sequences and integers *)

Range(s) == {s[i] : i \in 1..Len(s)}

Abs(x) == IF x < 0 THEN -x ELSE x

RECURSIVE GCD(_, _)
GCD(a, b) == IF b = 0 THEN a ELSE GCD(b, a % b)

RECURSIVE SumSeq(_)
SumSeq(s) == IF s = <<>> THEN 0 ELSE Head(s) + SumSeq(Tail(s))

RECURSIVE Concat(_)
Concat(ss) == IF ss = <<>> THEN <<>> ELSE Head(ss) \o Concat(Tail(ss))

\* s[:n]
Take(s, n) == SubSeq(s, 1, IF n < Len(s) THEN n ELSE Len(s))

\* All sequences over S of length 0..n
RECURSIVE SeqsUpTo(_, _)
SeqsUpTo(S, n) ==
    IF n = 0 THEN {<<>>}
    ELSE LET shorter == SeqsUpTo(S, n - 1)
         IN  shorter \cup {Append(s, x) : s \in {t \in shorter : Len(t) = n - 1}, x \in S}

-----------------------------------------------------------------------------
(* Exact rationals <<num, den>>, den > 0, lowest terms *)

Rat(n, d) ==
    LET g == GCD(Abs(n), Abs(d))
        sgn == IF d < 0 THEN -1 ELSE 1
    IN  <<sgn * (n \div g), sgn * (d \div g)>>

IntR(n) == <<n, 1>>
RAdd(a, b) == Rat(a[1] * b[2] + b[1] * a[2], a[2] * b[2])
RSub(a, b) == Rat(a[1] * b[2] - b[1] * a[2], a[2] * b[2])
RAbs(a) == <<Abs(a[1]), a[2]>>
RLt(a, b) == a[1] * b[2] < b[1] * a[2]
RLe(a, b) == a[1] * b[2] <= b[1] * a[2]
RDivInt(a, k) == Rat(a[1], a[2] * k)

RECURSIVE RSum(_)
RSum(s) == IF s = <<>> THEN IntR(0) ELSE RAdd(Head(s), RSum(Tail(s)))

-----------------------------------------------------------------------------
(* str methods, on code-point sequences *)

\* str.isspace() of one character: what strip() removes and split() splits on
IsSpace(c) ==
    \/ c \in 9..13 \/ c \in 28..32 \/ c = 133 \/ c = 160 \/ c = 5760
    \/ c \in 8192..8202 \/ c \in {8232, 8233, 8239, 8287, 12288}

RECURSIVE LStrip(_)
LStrip(s) == IF s # <<>> /\ IsSpace(Head(s)) THEN LStrip(Tail(s)) ELSE s

RECURSIVE RStrip(_)
RStrip(s) ==
    IF s # <<>> /\ IsSpace(s[Len(s)]) THEN RStrip(SubSeq(s, 1, Len(s) - 1)) ELSE s

\* str.strip()
Strip(s) == RStrip(LStrip(s))

\* str.lower() of one character: Basic Latin, Latin-1 and Cyrillic capitals
\* (every other code point the model's texts use is caseless)
LowerChar(c) ==
    IF c \in 65..90 \/ (c \in 192..222 /\ c # 215) \/ c \in 1040..1071 THEN c + 32
    ELSE IF c \in 1024..1039 THEN c + 80
    ELSE c

\* str.lower()
Lower(s) == [i \in 1..Len(s) |-> LowerChar(s[i])]

\* str.isupper() of one character, same alphabets
IsUpper(c) == LowerChar(c) # c

\* str.isdigit() of one character: ASCII, Arabic-Indic, Devanagari, Thai, fullwidth digits
IsDigit(c) ==
    \/ c \in 48..57 \/ c \in 1632..1641 \/ c \in 2406..2415
    \/ c \in 3664..3673 \/ c \in 65296..65305

\* str.endswith(suffix)
EndsWith(s, suffix) ==
    /\ Len(suffix) <= Len(s)
    /\ SubSeq(s, Len(s) - Len(suffix) + 1, Len(s)) = suffix

\* str.split(): maximal runs of non-space characters
RECURSIVE SplitFrom(_, _, _)
SplitFrom(s, i, word) ==
    IF i > Len(s) THEN (IF word = <<>> THEN <<>> ELSE <<word>>)
    ELSE IF IsSpace(s[i])
         THEN (IF word = <<>> THEN <<>> ELSE <<word>>) \o SplitFrom(s, i + 1, <<>>)
         ELSE SplitFrom(s, i + 1, Append(word, s[i]))

Split(s) == SplitFrom(s, 1, <<>>)

\* sum(1 for x in s if x in S)
Count(s, S) == Cardinality({i \in 1..Len(s) : s[i] \in S})

-----------------------------------------------------------------------------
(* MultilingualHeadingExtractor.__init__: the tables *)

\* The mutant declares chinese before japanese.
ScriptOrderChineseFirst ==
    <<"latin", "chinese", "japanese", "korean", "arabic", "cyrillic", "devanagari", "thai">>

\* the keys of self.script_ranges in declaration (dict) order
ScriptOrder ==
    <<"latin", "japanese", "chinese", "korean", "arabic", "cyrillic", "devanagari", "thai">>

script_ranges ==
    [latin |-> <<<<65, 90>>, <<97, 122>>, <<192, 383>>, <<256, 591>>>>,
     japanese |-> <<<<12352, 12447>>, <<12448, 12543>>, <<19968, 40879>>, <<12784, 12799>>>>,
     chinese |-> <<<<19968, 40959>>, <<13312, 19903>>, <<131072, 173791>>>>,
     korean |-> <<<<44032, 55215>>, <<4352, 4607>>, <<12592, 12687>>>>,
     arabic |-> <<<<1536, 1791>>, <<1872, 1919>>, <<2208, 2303>>>>,
     cyrillic |-> <<<<1024, 1279>>, <<1280, 1327>>>>,
     devanagari |-> <<<<2304, 2431>>>>,
     thai |-> <<<<3584, 3711>>>>]

sentence_endings ==
    [latin |-> <<<<46>>, <<33>>, <<63>>, <<59>>, <<58>>>>,
     japanese |-> <<<<12290>>, <<65311>>, <<65281>>, <<12391, 12377>>, <<12414, 12377>>,
                    <<12391, 12354, 12427>>, <<12384>>>>,
     chinese |-> <<<<12290>>, <<65311>>, <<65281>>, <<65306>>, <<65307>>>>,
     korean |-> <<<<45796>>, <<50836>>, <<45768, 45796>>, <<49845, 45768, 45796>>,
                  <<46>>, <<63>>, <<33>>>>,
     arabic |-> <<<<46>>, <<1567>>, <<33>>, <<1563>>, <<65306>>>>,
     cyrillic |-> <<<<46>>, <<33>>, <<63>>, <<59>>, <<58>>>>,
     devanagari |-> <<<<2404>>, <<2405>>, <<46>>, <<63>>, <<33>>>>,
     thai |-> <<<<46>>, <<63>>, <<33>>, <<3674>>, <<3675>>>>]

common_words ==
    [latin |-> <<<<116, 104, 101>>, <<97, 110, 100>>, <<111, 114>>, <<98, 117, 116>>,
                 <<105, 102>>, <<119, 104, 101, 110>>, <<119, 104, 101, 114, 101>>,
                 <<104, 111, 119>>, <<119, 104, 97, 116>>, <<105, 115>>, <<97>>,
                 <<105, 110>>, <<102, 111, 114>>, <<116, 111>>, <<111, 102>>,
                 <<119, 105, 116, 104>>>>,
     japanese |-> <<<<12399>>, <<12364>>, <<12434>>, <<12395>>, <<12408>>, <<12392>>,
                    <<12398>>, <<12391>>, <<12363, 12425>>, <<12414, 12391>>,
                    <<12424, 12426>>, <<12395, 12388, 12356, 12390>>,
                    <<12395, 12362, 12356, 12390>>, <<12392, 12356, 12358>>>>,
     chinese |-> <<<<30340>>, <<20102>>, <<26159>>, <<22312>>, <<26377>>, <<21644>>,
                   <<25110>>, <<20294>>, <<22914, 26524>>, <<24403>>, <<21738, 37324>>,
                   <<24590, 20040>>, <<20160, 20040>>>>,
     korean |-> <<<<51008>>, <<45716>>, <<51060>>, <<44032>>, <<51012>>, <<47484>>,
                  <<50640>>, <<50640, 49436>>, <<47196>>, <<50752>>, <<44284>>,
                  <<54616, 45796>>, <<51060, 45796>>, <<51080, 45796>>>>,
     arabic |-> <<<<1601, 1610>>, <<1605, 1606>>, <<1573, 1604, 1609>>, <<1593, 1604, 1609>>,
                  <<1593, 1606>>, <<1605, 1593>>, <<1607, 1584, 1575>>, <<1607, 1584, 1607>>,
                  <<1584, 1604, 1603>>, <<1575, 1604, 1578, 1610>>, <<1575, 1604, 1584, 1610>>>>,
     cyrillic |-> <<<<1080>>, <<1074>>, <<1085, 1072>>, <<1089>>, <<1087, 1086>>,
                    <<1076, 1083, 1103>>, <<1086, 1090>>, <<1076, 1086>>, <<1080, 1079>>,
                    <<1095, 1090, 1086>>, <<1082, 1072, 1082>>, <<1075, 1076, 1077>>,
                    <<1082, 1086, 1075, 1076, 1072>>>>,
     devanagari |-> <<<<2324, 2352>>, <<2350, 2375, 2306>>, <<2360, 2375>>, <<2325, 2379>>,
                      <<2325, 2366>>, <<2325, 2368>>, <<2325, 2375>>, <<2361, 2376>>,
                      <<2361, 2376, 2306>>, <<2341, 2366>>, <<2341, 2375>>,
                      <<2361, 2379, 2327, 2366>>>>,
     thai |-> <<<<3649, 3621, 3632>>, <<3651, 3609>>, <<3586, 3629, 3591>>,
                <<3607, 3637, 3656>>, <<3592, 3634, 3585>>, <<3652, 3611>>, <<3617, 3634>>,
                <<3652, 3604, 3657>>, <<3648, 3611, 3655, 3609>>, <<3629, 3618, 3641, 3656>>,
                <<3649, 3621, 3657, 3623>>>>]

-----------------------------------------------------------------------------
(* detect_script *)

\* any(start <= code_point <= end for start, end in ranges)
InRanges(cp, ranges) == \E i \in 1..Len(ranges) : ranges[i][1] <= cp /\ cp <= ranges[i][2]

\* script_counts[script] += 1 on a defaultdict(int): a new key goes last
Increment(counts, script) ==
    IF \E i \in 1..Len(counts) : counts[i][1] = script
    THEN [i \in 1..Len(counts) |->
             IF counts[i][1] = script THEN <<script, counts[i][2] + 1>> ELSE counts[i]]
    ELSE Append(counts, <<script, 1>>)

\* The mutant's break leaves the loop over the scripts too: a character counts
\* for the first script that has it.
RECURSIVE CountCharFirstScript(_, _, _)
CountCharFirstScript(counts, cp, k) ==
    IF k > Len(ScriptOrder) THEN counts
    ELSE IF InRanges(cp, script_ranges[ScriptOrder[k]])
         THEN Increment(counts, ScriptOrder[k])
         ELSE CountCharFirstScript(counts, cp, k + 1)

\* the loop over self.script_ranges.items() for one character, from script k on:
\* the break leaves the ranges of one script only, so every script is tested
RECURSIVE CountChar(_, _, _)
CountChar(counts, cp, k) ==
    IF k > Len(ScriptOrder) THEN counts
    ELSE CountChar(IF InRanges(cp, script_ranges[ScriptOrder[k]])
                   THEN Increment(counts, ScriptOrder[k]) ELSE counts,
                   cp, k + 1)

\* the loop over the characters of text, from position i on
RECURSIVE CountText(_, _, _)
CountText(counts, text, i) ==
    IF i > Len(text) THEN counts
    ELSE CountText(CountChar(counts, text[i], 1), text, i + 1)

\* max(items, key=lambda x: x[1]): the first item whose value no item exceeds.
\* The mutant keeps the last one.
MaxItemLast(items) ==
    LET best == CHOOSE i \in 1..Len(items) :
                    /\ \A j \in 1..Len(items) : items[j][2] <= items[i][2]
                    /\ \A j \in (i + 1)..Len(items) : items[j][2] < items[i][2]
    IN  items[best]

MaxItem(items) ==
    LET best == CHOOSE i \in 1..Len(items) :
                    /\ \A j \in 1..Len(items) : items[j][2] <= items[i][2]
                    /\ \A j \in 1..(i - 1) : items[j][2] < items[i][2]
    IN  items[best]

detect_script(text) ==
    IF text = <<>> THEN "latin"
    ELSE LET script_counts == CountText(<<>>, text, 1)
         IN  IF script_counts = <<>> THEN "latin"
             ELSE MaxItem(script_counts)[1]

-----------------------------------------------------------------------------
(* The heading heuristics *)

_is_heading_japanese(text) ==
    LET particles == {12399, 12364, 12434, 12395, 12408, 12392, 12398, 12391}
        particle_count == Count(text, particles)
        sentence_patterns == {<<12392, 12356, 12358>>, <<12391, 12354, 12427>>,
                              <<12371, 12392, 12364>>, <<12383, 12417, 12395>>,
                              <<12392, 12375, 12390>>}
    IN  IF 12289 \in Range(text) THEN FALSE
        ELSE IF Len(text) > 10 /\ particle_count > 2 THEN FALSE
        ELSE IF \E p \in sentence_patterns : EndsWith(text, p) THEN FALSE
        ELSE TRUE

\* word_count > len(text) * 0.3 is 10 * word_count > 3 * len(text)
_is_heading_chinese(text) ==
    LET words == Range(common_words.chinese)
        word_count == Count([i \in 1..Len(text) |-> <<text[i]>>], words)
    IN  IF Len(text) > 5 /\ 10 * word_count > 3 * Len(text) THEN FALSE
        ELSE IF 65292 \in Range(text) \/ 65307 \in Range(text) THEN FALSE
        ELSE TRUE

\* count > n * 0.4 is 10 * count > 4 * n
_is_heading_korean(text) ==
    LET particles == Range(common_words.korean)
        words == Split(text)
        particle_count == Count(words, particles)
        total_words == Len(words)
    IN  IF total_words > 2 /\ 10 * particle_count > 4 * total_words THEN FALSE
        ELSE TRUE

_is_heading_arabic(text) ==
    LET words == Split(text)
        common_count == Count(words, Range(common_words.arabic))
    IN  IF Len(words) > 2 /\ 10 * common_count > 4 * Len(words) THEN FALSE
        ELSE TRUE

_is_heading_generic(text, script) ==
    LET cw == IF script \in DOMAIN common_words THEN common_words[script] ELSE <<>>
        words == Split(text)
        common_count == Count(words, Range(cw))
    IN  IF cw # <<>> /\ Len(words) > 2 /\ 10 * common_count > 4 * Len(words) THEN FALSE
        ELSE TRUE

\* punct_count > len(text) * 0.15 is 100 * punct_count > 15 * len(text)
_is_heading_latin(text) ==
    LET words == Split(Lower(text))
        common_count == Count(words, Range(common_words.latin))
        punct_count == Count(text, {44, 46, 59, 58, 40, 41, 34, 39})
    IN  IF ~(IsUpper(text[1]) \/ IsDigit(text[1])) THEN FALSE
        ELSE IF Len(words) > 3 /\ 10 * common_count > 4 * Len(words) THEN FALSE
        ELSE IF 100 * punct_count > 15 * Len(text) THEN FALSE
        ELSE TRUE

is_likely_heading_by_script(text0, script) ==
    LET text == Strip(text0)
        max_length == IF script = "japanese" THEN 50 ELSE 100
        endings == IF script \in DOMAIN sentence_endings THEN sentence_endings[script]
                   ELSE <<>>
    IN  IF Len(text) < 2 THEN FALSE
        ELSE IF Len(text) > max_length THEN FALSE
        ELSE IF \E e \in Range(endings) : EndsWith(text, e) THEN FALSE
        ELSE IF script = "japanese" THEN _is_heading_japanese(text)
        ELSE IF script = "chinese" THEN _is_heading_chinese(text)
        ELSE IF script = "korean" THEN _is_heading_korean(text)
        ELSE IF script = "arabic" THEN _is_heading_arabic(text)
        ELSE IF script \in {"cyrillic", "devanagari", "thai"}
             THEN _is_heading_generic(text, script)
        ELSE _is_heading_latin(text)

is_likely_heading(text0) ==
    LET text == Strip(text0)
    IN  IF Len(text) < 2 THEN FALSE
        ELSE is_likely_heading_by_script(text, detect_script(text))

-----------------------------------------------------------------------------
(* cluster_font_sizes *)

\* sorted(set(sizes), reverse=True) of numbers
RECURSIVE SortedSetDesc(_)
SortedSetDesc(S) ==
    IF S = {} THEN <<>>
    ELSE LET m == CHOOSE x \in S : \A y \in S : y <= x
         IN  <<m>> \o SortedSetDesc(S \ {m})

\* sorted(sizes): insertion into an ascending list, after the equal elements
RECURSIVE InsertAsc(_, _)
InsertAsc(s, x) ==
    IF s = <<>> THEN <<x>>
    ELSE IF x < Head(s) THEN <<x>> \o s
    ELSE <<Head(s)>> \o InsertAsc(Tail(s), x)

RECURSIVE SortedAsc(_)
SortedAsc(s) ==
    IF s = <<>> THEN <<>> ELSE InsertAsc(SortedAsc(SubSeq(s, 1, Len(s) - 1)), s[Len(s)])

\* sorted(clusters, reverse=True) of rationals; stable
RECURSIVE InsertRatDesc(_, _)
InsertRatDesc(s, x) ==
    IF s = <<>> THEN <<x>>
    ELSE IF RLt(Head(s), x) THEN <<x>> \o s
    ELSE <<Head(s)>> \o InsertRatDesc(Tail(s), x)

RECURSIVE SortedRatDesc(_)
SortedRatDesc(s) ==
    IF s = <<>> THEN <<>>
    ELSE InsertRatDesc(SortedRatDesc(SubSeq(s, 1, Len(s) - 1)), s[Len(s)])

\* center = sum(current_cluster) / len(current_cluster)
Center(current_cluster) == Rat(SumSeq(current_cluster), Len(current_cluster))

\* abs(current_cluster[0] - size) <= cluster_eps.  The mutant measures from the
\* cluster's last member (single linkage).
JoinsClusterFromLast(current_cluster, size, eps) ==
    Abs(current_cluster[Len(current_cluster)] - size) <= eps

JoinsCluster(current_cluster, size, eps) == Abs(current_cluster[1] - size) <= eps

\* the for loop over unique_sizes[1:], from position i on, and the final center
RECURSIVE ClusterLoop(_, _, _, _, _)
ClusterLoop(unique_sizes, i, clusters, current_cluster, eps) ==
    IF i > Len(unique_sizes) THEN Append(clusters, Center(current_cluster))
    ELSE IF JoinsCluster(current_cluster, unique_sizes[i], eps)
         THEN ClusterLoop(unique_sizes, i + 1, clusters,
                          Append(current_cluster, unique_sizes[i]), eps)
         ELSE ClusterLoop(unique_sizes, i + 1, Append(clusters, Center(current_cluster)),
                          <<unique_sizes[i]>>, eps)

cluster_font_sizes(sizes, eps) ==
    IF sizes = <<>> THEN <<>>
    ELSE LET unique_sizes == SortedSetDesc(Range(sizes))
         IN  IF Len(unique_sizes) <= 1 THEN [i \in 1..Len(unique_sizes) |-> IntR(unique_sizes[i])]
             ELSE SortedRatDesc(ClusterLoop(unique_sizes, 2, <<>>, <<unique_sizes[1]>>, eps))

-----------------------------------------------------------------------------
(* get_font_size_outliers *)

\* int(len(sorted_sizes) * threshold_percentile / 100)
ThresholdIdx(n, threshold_percentile) == (n * threshold_percentile) \div 100

get_font_size_outliers(all_sizes, threshold_percentile) ==
    IF all_sizes = <<>> THEN <<>>
    ELSE LET sorted_sizes == SortedAsc(all_sizes)
             threshold_idx == ThresholdIdx(Len(sorted_sizes), threshold_percentile)
             threshold_size == IF threshold_idx < Len(sorted_sizes)
                               THEN sorted_sizes[threshold_idx + 1]
                               ELSE sorted_sizes[Len(sorted_sizes)]
         IN  SortedSetDesc({size \in Range(all_sizes) : size > threshold_size})

-----------------------------------------------------------------------------
(* get_heading_level *)

\* the default of the parameter tol: 2.0 pt
tol == 4

\* float('inf'): greater than every rational under RLt
Inf == <<1, 0>>

\* the enumerate loop from 0-based index idx on: <<closest_idx, min_diff>>
RECURSIVE Closest(_, _, _, _, _)
Closest(fontsize, sizes, idx, closest_idx, min_diff) ==
    IF idx >= Len(sizes) THEN <<closest_idx, min_diff>>
    ELSE LET diff == RAbs(RSub(IntR(fontsize), sizes[idx + 1]))
         IN  IF RLt(diff, min_diff)
             THEN Closest(fontsize, sizes, idx + 1, idx, diff)
             ELSE Closest(fontsize, sizes, idx + 1, closest_idx, min_diff)

\* The mutant returns H3 where the function ends in return None.
BoldLevelAlways(fontsize, sizes, is_bold) == "H3"

\* the bold branch: fontsize >= avg_size - 1 (1.0 pt is 2)
BoldLevel(fontsize, sizes, is_bold) ==
    IF is_bold /\ Len(sizes) > 0
    THEN LET avg_size == RDivInt(RSum(sizes), Len(sizes))
         IN  IF RLe(RSub(avg_size, IntR(2)), IntR(fontsize)) THEN "H3" ELSE None
    ELSE None

\* The mutant returns None for a close tier of index 5 or more, without the
\* bold branch.
get_heading_level_strict(fontsize, sizes, is_bold, tolerance) ==
    IF sizes = <<>> THEN None
    ELSE LET c == Closest(fontsize, sizes, 0, -1, Inf)
         IN  IF RLe(c[2], IntR(tolerance))
             THEN (IF c[1] = 0 THEN "H1"
                   ELSE IF c[1] = 1 THEN "H2"
                   ELSE IF c[1] <= 4 THEN "H3"
                   ELSE None)
             ELSE BoldLevel(fontsize, sizes, is_bold)

get_heading_level(fontsize, sizes, is_bold, tolerance) ==
    IF sizes = <<>> THEN None
    ELSE LET c == Closest(fontsize, sizes, 0, -1, Inf)
         IN  IF RLe(c[2], IntR(tolerance)) /\ c[1] = 0 THEN "H1"
             ELSE IF RLe(c[2], IntR(tolerance)) /\ c[1] = 1 THEN "H2"
             ELSE IF RLe(c[2], IntR(tolerance)) /\ c[1] <= 4 THEN "H3"
             ELSE BoldLevel(fontsize, sizes, is_bold)

-----------------------------------------------------------------------------
(* extract_outline_from_pdf: what it reads from the document *)

\* What fitz gives: a document is [title, pages]; a page is a sequence of blocks;
\* a text block is [lines |-> ...] and an image block has no "lines"; a line is
\* its sequence of spans; a span is [text, size, flags].
Corrupt == [corrupt |-> TRUE]

\* "".join(span["text"] for span in line["spans"]).strip()
LineText(spans) == Strip(Concat([i \in 1..Len(spans) |-> spans[i].text]))

\* max(span["size"] for span in line["spans"])
MaxFontsize(spans) ==
    LET S == {spans[i].size : i \in 1..Len(spans)}
    IN  CHOOSE x \in S : \A y \in S : y <= x

\* any(span.get("flags", 0) & 2 for span in line["spans"])
IsBold(spans) == \E i \in 1..Len(spans) : (spans[i].flags \div 2) % 2 = 1

\* one line of a block: nothing for a line without spans or with blank text
LineBlocks(spans, page_num) ==
    IF spans = <<>> THEN <<>>
    ELSE IF LineText(spans) = <<>> THEN <<>>
    ELSE <<[text |-> LineText(spans), fontsize |-> MaxFontsize(spans),
            is_bold |-> IsBold(spans), page |-> page_num + 1]>>

\* one block of a page: an image block has no lines
BlockBlocks(block, page_num) ==
    IF "lines" \notin DOMAIN block THEN <<>>
    ELSE Concat([i \in 1..Len(block.lines) |-> LineBlocks(block.lines[i], page_num)])

PageBlocks(page, page_num) ==
    Concat([i \in 1..Len(page) |-> BlockBlocks(page[i], page_num)])

\* the loops over range(len(doc)), blocks and lines: all_text_blocks
TextBlocks(doc) ==
    Concat([p \in 1..Len(doc.pages) |-> PageBlocks(doc.pages[p], p - 1)])

\* all_font_sizes: one per text block
FontSizes(blocks) == [i \in 1..Len(blocks) |-> blocks[i].fontsize]

\* potential_heading_sizes: the sizes of the lines is_likely_heading accepts
PotentialSizes(blocks) ==
    FontSizes(SelectSeq(blocks, LAMBDA b : is_likely_heading(b.text)))

\* os.path.splitext(name)[0]: up to the last dot, unless only dots precede it
SplitextRoot(name) ==
    LET dots == {i \in 1..Len(name) : name[i] = 46}
    IN  IF dots = {} THEN name
        ELSE LET last == CHOOSE i \in dots : \A j \in dots : j <= i
             IN  IF \A j \in 1..(last - 1) : name[j] = 46 THEN name
                 ELSE SubSeq(name, 1, last - 1)

\* title = doc.metadata.get("title", "").strip() or the file name's root
Title(doc, filename) ==
    IF Strip(doc.title) # <<>> THEN Strip(doc.title) ELSE SplitextRoot(filename)

-----------------------------------------------------------------------------
(* extract_outline_from_pdf: the tiers *)

\* cluster_eps=1.5 pt, as passed at the call
cluster_eps == 3

IntRs(s) == [i \in 1..Len(s) |-> IntR(s[i])]

\* if len(clustered_sizes) < 2: the 75th-percentile outliers, at most 3
OutlierTiers(clustered, sizes) ==
    IF Len(clustered) < 2
    THEN LET font_outliers == get_font_size_outliers(sizes, 75)
         IN  IF font_outliers # <<>> THEN IntRs(Take(font_outliers, 3)) ELSE clustered
    ELSE clustered

\* The mutant repeats the second size instead of synthesising (second - 1).
ForcedTiersRepeat(clustered, sizes) ==
    IF Len(clustered) < 3 /\ sizes # <<>>
    THEN LET sorted_sizes == SortedSetDesc(Range(sizes))
         IN  IF Len(sorted_sizes) >= 3 THEN IntRs(Take(sorted_sizes, 3))
             ELSE IF Len(sorted_sizes) = 2
                  THEN IntRs(<<sorted_sizes[1], sorted_sizes[2], sorted_sizes[2]>>)
             ELSE IntRs(<<sorted_sizes[1], sorted_sizes[1], sorted_sizes[1]>>)
    ELSE clustered

\* if len(clustered_sizes) < 3 and all_font_sizes: three tiers from the sizes
\* (1.0 pt is 2)
ForcedTiers(clustered, sizes) ==
    IF Len(clustered) < 3 /\ sizes # <<>>
    THEN LET sorted_sizes == SortedSetDesc(Range(sizes))
         IN  IF Len(sorted_sizes) >= 3 THEN IntRs(Take(sorted_sizes, 3))
             ELSE IF Len(sorted_sizes) = 2
                  THEN IntRs(<<sorted_sizes[1], sorted_sizes[2], sorted_sizes[2] - 2>>)
             ELSE IntRs(<<sorted_sizes[1], sorted_sizes[1] - 2, sorted_sizes[1] - 4>>)
    ELSE clustered

-----------------------------------------------------------------------------
(* extract_outline_from_pdf: the headings *)

\* The mutant accepts every line.
IsCandidateAny(block, sizes) == TRUE

\* is_content_heading or is_size_outlier
IsCandidate(block, sizes) ==
    \/ is_likely_heading(block.text)
    \/ block.fontsize \in Range(get_font_size_outliers(sizes, 70))

\* text.lower().strip().  The mutant does not fold the case.
TextNormalizedCased(text) == Strip(text)

TextNormalized(text) == Strip(Lower(text))

\* 0 if level == "H1" else 1 if level == "H2" else 2
LevelRank(level) == IF level = "H1" THEN 0 ELSE IF level = "H2" THEN 1 ELSE 2

\* the sort keys: (page, rank) and page
KeyLess(a, b, by_level) ==
    \/ a.page < b.page
    \/ by_level /\ a.page = b.page /\ LevelRank(a.level) < LevelRank(b.level)

\* list.sort(key=...): stable
RECURSIVE InsertByKey(_, _, _)
InsertByKey(s, x, by_level) ==
    IF s = <<>> THEN <<x>>
    ELSE IF KeyLess(x, Head(s), by_level) THEN <<x>> \o s
    ELSE <<Head(s)>> \o InsertByKey(Tail(s), x, by_level)

RECURSIVE SortByKey(_, _)
SortByKey(s, by_level) ==
    IF s = <<>> THEN <<>>
    ELSE InsertByKey(SortByKey(SubSeq(s, 1, Len(s) - 1), by_level), s[Len(s)], by_level)

\* [h for h in headings if h["level"] == level][:n]
FirstOfLevel(hs, level, n) == Take(SelectSeq(hs, LAMBDA h : h.level = level), n)

\* The mutant puts the H3s first.
CappedH3First(hs) ==
    IF Len(hs) > 30
    THEN SortByKey(FirstOfLevel(hs, "H3", 15) \o FirstOfLevel(hs, "H2", 10)
                   \o FirstOfLevel(hs, "H1", 5), FALSE)
    ELSE hs

\* The mutant caps at more than 31.
CappedLate(hs) ==
    IF Len(hs) > 31
    THEN SortByKey(FirstOfLevel(hs, "H1", 5) \o FirstOfLevel(hs, "H2", 10)
                   \o FirstOfLevel(hs, "H3", 15), FALSE)
    ELSE hs

\* if len(headings) > 30: 5 H1, 10 H2, 15 H3, sorted by page
Capped(hs) ==
    IF Len(hs) > 30
    THEN SortByKey(FirstOfLevel(hs, "H1", 5) \o FirstOfLevel(hs, "H2", 10)
                   \o FirstOfLevel(hs, "H3", 15), FALSE)
    ELSE hs

-----------------------------------------------------------------------------
(* process_all_pdfs and extract_outline_from_pdf, step by step *)

DotPdf == <<46, 112, 100, 102>>
DotJson == <<46, 106, 115, 111, 110>>

\* [f for f in os.listdir(input_dir) if f.lower().endswith(".pdf")]
PdfFiles(listing) ==
    LET names == [i \in 1..Len(listing) |-> listing[i].name]
    IN  SelectSeq(names, LAMBDA f : EndsWith(Lower(f), DotPdf))

\* os.path.splitext(filename)[0] + ".json"
OutputFilename(filename) == SplitextRoot(filename) \o DotJson

\* what the file of that name holds
ContentOf(filename) ==
    LET i == CHOOSE k \in 1..Len(dir) : dir[k].name = filename IN dir[i].content

\* headings = [] (extract_outline_from_pdf's local).  The mutant keeps the list
\* of the previous call, as an attribute of the shared extractor would.
StaleHeadings == headings

FreshHeadings == <<>>

\* lines 335-342: the listing, and the early return when it holds no PDF
ListFiles ==
    /\ pc = "start"
    /\ pdf_files' = PdfFiles(dir)
    /\ \/ /\ PdfFiles(dir) = <<>>
          /\ log' = Append(log, [kind |-> "nofiles"])
          /\ pc' = "done"
          /\ UNCHANGED fidx
       \/ /\ PdfFiles(dir) # <<>>
          /\ fidx' = 1
          /\ pc' = "loop"
          /\ UNCHANGED log
    /\ UNCHANGED <<dir, title, all_text_blocks, all_font_sizes, potential_heading_sizes,
                   clustered_sizes, headings, seen_headings, bidx, outline, output_dir,
                   call, ret>>

\* lines 346-352: the next file of the loop, or its end
NextFile ==
    /\ pc = "loop"
    /\ \/ /\ fidx <= Len(pdf_files)
          /\ log' = Append(log, [kind |-> "processing", file |-> pdf_files[fidx]])
          /\ pc' = "open"
       \/ /\ fidx > Len(pdf_files)
          /\ pc' = "done"
          /\ UNCHANGED log
    /\ UNCHANGED <<dir, pdf_files, fidx, title, all_text_blocks, all_font_sizes,
                   potential_heading_sizes, clustered_sizes, headings, seen_headings,
                   bidx, outline, output_dir, call, ret>>

\* lines 230-238: fitz.open raises on a file it cannot read; else the title and
\* the empty lists
OpenDoc ==
    /\ pc = "open"
    /\ \/ /\ ContentOf(pdf_files[fidx]) = Corrupt
          /\ pc' = "except"
          /\ UNCHANGED <<title, all_text_blocks, all_font_sizes, potential_heading_sizes>>
       \/ /\ ContentOf(pdf_files[fidx]) # Corrupt
          /\ title' = Title(ContentOf(pdf_files[fidx]), pdf_files[fidx])
          /\ all_text_blocks' = <<>>
          /\ all_font_sizes' = <<>>
          /\ potential_heading_sizes' = <<>>
          /\ pc' = "extract"
    /\ UNCHANGED <<dir, pdf_files, fidx, clustered_sizes, headings, seen_headings, bidx,
                   outline, output_dir, log, call, ret>>

\* lines 240-270: the lines of the document
ExtractLines ==
    /\ pc = "extract"
    /\ LET blocks == TextBlocks(ContentOf(pdf_files[fidx]))
       IN  /\ all_text_blocks' = all_text_blocks \o blocks
           /\ all_font_sizes' = all_font_sizes \o FontSizes(blocks)
           /\ potential_heading_sizes' = potential_heading_sizes \o PotentialSizes(blocks)
    /\ pc' = "cluster"
    /\ UNCHANGED <<dir, pdf_files, fidx, title, clustered_sizes, headings, seen_headings,
                   bidx, outline, output_dir, log, call, ret>>

\* line 272
ClusterSizes ==
    /\ pc = "cluster"
    /\ clustered_sizes' = cluster_font_sizes(potential_heading_sizes, cluster_eps)
    /\ pc' = "outliers"
    /\ UNCHANGED <<dir, pdf_files, fidx, title, all_text_blocks, all_font_sizes,
                   potential_heading_sizes, headings, seen_headings, bidx, outline,
                   output_dir, log, call, ret>>

\* lines 274-277
OutlierFallback ==
    /\ pc = "outliers"
    /\ clustered_sizes' = OutlierTiers(clustered_sizes, all_font_sizes)
    /\ pc' = "force"
    /\ UNCHANGED <<dir, pdf_files, fidx, title, all_text_blocks, all_font_sizes,
                   potential_heading_sizes, headings, seen_headings, bidx, outline,
                   output_dir, log, call, ret>>

\* lines 279-289: the forced tiers, then headings = [] and seen_headings = set()
ForceTiers ==
    /\ pc = "force"
    /\ clustered_sizes' = ForcedTiers(clustered_sizes, all_font_sizes)
    /\ headings' = FreshHeadings
    /\ seen_headings' = {}
    /\ bidx' = 1
    /\ pc' = "scan"
    /\ UNCHANGED <<dir, pdf_files, fidx, title, all_text_blocks, all_font_sizes,
                   potential_heading_sizes, outline, output_dir, log, call, ret>>

\* lines 291-315: one pass of the loop over all_text_blocks
ScanBlock ==
    /\ pc = "scan"
    /\ bidx <= Len(all_text_blocks)
    /\ LET block == all_text_blocks[bidx]
           text_normalized == TextNormalized(block.text)
           level == get_heading_level(block.fontsize, clustered_sizes, block.is_bold, tol)
       IN  \/ /\ ~IsCandidate(block, all_font_sizes)
              /\ UNCHANGED <<headings, seen_headings>>
           \/ /\ IsCandidate(block, all_font_sizes)
              /\ text_normalized \in seen_headings
              /\ UNCHANGED <<headings, seen_headings>>
           \/ /\ IsCandidate(block, all_font_sizes)
              /\ text_normalized \notin seen_headings
              /\ level = None
              /\ UNCHANGED <<headings, seen_headings>>
           \/ /\ IsCandidate(block, all_font_sizes)
              /\ text_normalized \notin seen_headings
              /\ level # None
              /\ headings' = Append(headings, [level |-> level, text |-> Strip(block.text),
                                               page |-> block.page])
              /\ seen_headings' = seen_headings \cup {text_normalized}
    /\ bidx' = bidx + 1
    /\ UNCHANGED <<dir, pc, pdf_files, fidx, title, all_text_blocks, all_font_sizes,
                   potential_heading_sizes, clustered_sizes, outline, output_dir, log,
                   call, ret>>

\* line 317, once the loop is over
SortHeadings ==
    /\ pc = "scan"
    /\ bidx > Len(all_text_blocks)
    /\ headings' = SortByKey(headings, TRUE)
    /\ pc' = "cap"
    /\ UNCHANGED <<dir, pdf_files, fidx, title, all_text_blocks, all_font_sizes,
                   potential_heading_sizes, clustered_sizes, seen_headings, bidx, outline,
                   output_dir, log, call, ret>>

\* lines 319-324
CapHeadings ==
    /\ pc = "cap"
    /\ headings' = Capped(headings)
    /\ pc' = "return"
    /\ UNCHANGED <<dir, pdf_files, fidx, title, all_text_blocks, all_font_sizes,
                   potential_heading_sizes, clustered_sizes, seen_headings, bidx, outline,
                   output_dir, log, call, ret>>

\* lines 326-331 and 353
ReturnOutline ==
    /\ pc = "return"
    /\ outline' = [title |-> title, outline |-> headings]
    /\ pc' = "write"
    /\ UNCHANGED <<dir, pdf_files, fidx, title, all_text_blocks, all_font_sizes,
                   potential_heading_sizes, clustered_sizes, headings, seen_headings, bidx,
                   output_dir, log, call, ret>>

\* lines 355-358: the file is written and the success line printed; or open()
\* raises; or json.dump raises into the file just created
WriteOutput ==
    /\ pc = "write"
    /\ \/ /\ output_dir' = Append(output_dir, [name |-> OutputFilename(pdf_files[fidx]),
                                               data |-> outline])
          /\ log' = Append(log, [kind |-> "ok", file |-> pdf_files[fidx],
                                 n |-> Len(outline.outline)])
          /\ fidx' = fidx + 1
          /\ pc' = "loop"
       \/ /\ pc' = "except"
          /\ UNCHANGED <<output_dir, log, fidx>>
       \/ /\ output_dir' = Append(output_dir, [name |-> OutputFilename(pdf_files[fidx]),
                                               data |-> [partial |-> TRUE]])
          /\ pc' = "except"
          /\ UNCHANGED <<log, fidx>>
    /\ UNCHANGED <<dir, pdf_files, title, all_text_blocks, all_font_sizes,
                   potential_heading_sizes, clustered_sizes, headings, seen_headings, bidx,
                   outline, call, ret>>

\* where the loop is after the except clause.  The mutant lets the exception
\* end the loop.
AfterErrorAbort == "done"

AfterError == "loop"

\* lines 360-361: the error line, and on to the next file
HandleError ==
    /\ pc = "except"
    /\ log' = Append(log, [kind |-> "error", file |-> pdf_files[fidx]])
    /\ fidx' = fidx + 1
    /\ pc' = AfterError
    /\ UNCHANGED <<dir, pdf_files, title, all_text_blocks, all_font_sizes,
                   potential_heading_sizes, clustered_sizes, headings, seen_headings, bidx,
                   outline, output_dir, call, ret>>

Next ==
    \/ ListFiles \/ NextFile \/ OpenDoc \/ ExtractLines \/ ClusterSizes
    \/ OutlierFallback \/ ForceTiers \/ ScanBlock \/ SortHeadings \/ CapHeadings
    \/ ReturnOutline \/ WriteOutput \/ HandleError

-----------------------------------------------------------------------------
(* The inputs: directories of files *)

\* the longest document body, in blocks; the longest many-heading document, in
\* lines; the most files of a batch
MaxBlocks == 4
MaxBigLines == 32
MaxFiles == 3

Span(text, size, flags) == [text |-> text, size |-> size, flags |-> flags]

\* One-line blocks: "Ab" 24 pt, "AB" 18 pt bold, "Cd" 23 pt, "ab" 30 pt bold;
\* and a paragraph of ten lines "ab" 12 pt
HeadingAb == [lines |-> <<<<Span(<<65, 98>>, 48, 0)>>>>]
HeadingAB == [lines |-> <<<<Span(<<65, 66>>, 36, 2)>>>>]
HeadingCd == [lines |-> <<<<Span(<<67, 100>>, 46, 0)>>>>]
BannerAb == [lines |-> <<<<Span(<<97, 98>>, 60, 18)>>>>]
Paragraph == [lines |-> [i \in 1..10 |-> <<Span(<<97, 98>>, 24, 0)>>]]

BlockPool == {HeadingAb, HeadingAB, HeadingCd, BannerAb, Paragraph}

\* a block of large plain text: "ab" three times at 30 pt, then at 25 and 22 pt
Slogans ==
    [lines |-> <<<<Span(<<97, 98>>, 60, 0)>>, <<Span(<<97, 98>>, 60, 0)>>,
                 <<Span(<<97, 98>>, 60, 0)>>, <<Span(<<97, 98>>, 50, 0)>>,
                 <<Span(<<97, 98>>, 44, 0)>>>>]

\* an image block, and a text block of a line without spans and a blank line
ImageBlock == [type |-> 1]
NoiseBlock == [lines |-> <<<<>>, <<Span(<<32, 32>>, 80, 2)>>>>]

\* the same line in two spans: its first character smaller and plain, the rest
\* followed by a space
SplitSpans(spans) ==
    IF Len(spans) = 1 /\ Len(spans[1].text) >= 2
    THEN <<Span(<<spans[1].text[1]>>, spans[1].size - 10, 0),
           Span(Tail(spans[1].text) \o <<32>>, spans[1].size, spans[1].flags)>>
    ELSE spans

SplitBlock(block) == [lines |-> [i \in 1..Len(block.lines) |-> SplitSpans(block.lines[i])]]

\* a one-page document titled " T "
FlatDoc(blocks) == [title |-> <<32, 84, 32>>, pages |-> <<blocks>>]

\* an untitled document: an image, noise and the first block on page 1, page 2
\* empty, the other blocks on page 3
PagedDoc(blocks) ==
    [title |-> <<>>,
     pages |-> IF blocks = <<>> THEN <<<<ImageBlock, NoiseBlock>>, <<>>>>
               ELSE <<<<ImageBlock, NoiseBlock, SplitBlock(Head(blocks))>>, <<>>,
                      Tail(blocks)>>]

SmallDocs ==
    {FlatDoc(b) : b \in SeqsUpTo(BlockPool, MaxBlocks)}
        \cup {PagedDoc(b) : b \in SeqsUpTo(BlockPool, MaxBlocks)}

\* the large plain text alone, or with one smaller block under it
SloganDocs == {FlatDoc(<<Slogans>> \o b) : b \in SeqsUpTo(BlockPool, 1)}

\* Many-heading documents: n lines of distinct two-letter texts, four to a page,
\* one block a page; the sizes 12, 18 and 24 pt in turn, or all 12 pt but one
\* line of 24 pt and one of 18 pt, or all 24 pt but one of 18 pt and one of 12 pt
BigText(i) == <<65 + (i % 26), 97 + (i \div 26)>>

BigSize(i, pattern) ==
    IF pattern = "cycle" THEN <<24, 36, 48>>[(i % 3) + 1]
    ELSE IF pattern = "mostly_small"
         THEN (IF i = 2 THEN 48 ELSE IF i = 3 THEN 36 ELSE 24)
    ELSE (IF i = 2 THEN 36 ELSE IF i = 3 THEN 24 ELSE 48)

BigDoc(n, pattern) ==
    [title |-> <<>>,
     pages |-> [p \in 1..((n + 3) \div 4) |->
                   <<[lines |-> [k \in 1..(IF 4 * p <= n THEN 4 ELSE n - 4 * (p - 1)) |->
                                    <<Span(BigText(4 * (p - 1) + k),
                                           BigSize(4 * (p - 1) + k, pattern), 0)>>]]>>]]

BigDocs ==
    {BigDoc(n, pattern) : n \in (MaxBigLines - 2)..MaxBigLines,
                          pattern \in {"cycle", "mostly_small", "mostly_big"}}

\* file names: a.pdf, b.PDF, c.txt, d.pdf
NamePool ==
    {<<97, 46, 112, 100, 102>>, <<98, 46, 80, 68, 70>>, <<99, 46, 116, 120, 116>>,
     <<100, 46, 112, 100, 102>>}

\* what the files of a batch hold
BatchContents == {Corrupt, FlatDoc(<<HeadingAb>>), PagedDoc(<<HeadingAB, HeadingAb>>)}

\* one PDF, of any document
SingleDirs == {<<[name |-> <<97, 46, 112, 100, 102>>, content |-> d]>> :
                  d \in SmallDocs \cup SloganDocs \cup BigDocs}

\* up to MaxFiles files of distinct names
BatchDirs ==
    {d \in SeqsUpTo([name : NamePool, content : BatchContents], MaxFiles) :
        \A i, j \in 1..Len(d) : d[i].name = d[j].name => i = j}

\* no direct call of a method, and no value returned from one
NoCall == [fn |-> "none"]
NoRet == [returned |-> FALSE]
Returned(v) == [returned |-> TRUE, value |-> v]

Init ==
    /\ dir \in SingleDirs \cup BatchDirs
    /\ pc = "start"
    /\ pdf_files = <<>>
    /\ fidx = 0
    /\ title = <<>>
    /\ all_text_blocks = <<>>
    /\ all_font_sizes = <<>>
    /\ potential_heading_sizes = <<>>
    /\ clustered_sizes = <<>>
    /\ headings = <<>>
    /\ seen_headings = {}
    /\ bidx = 0
    /\ outline = [none |-> TRUE]
    /\ output_dir = <<>>
    /\ log = <<>>
    /\ call = NoCall
    /\ ret = NoRet

Spec == Init /\ [][Next]_vars

-----------------------------------------------------------------------------
(* Direct calls of detect_script, cluster_font_sizes and get_heading_level *)

\* the longest text, the longest list of sizes, the most tiers
MaxTextLen == 3
MaxSizes == 4
MaxTiers == 10

\* process_all_pdfs is not running
Idle ==
    /\ dir = <<>>
    /\ pc = "idle"
    /\ pdf_files = <<>>
    /\ fidx = 0
    /\ title = <<>>
    /\ all_text_blocks = <<>>
    /\ all_font_sizes = <<>>
    /\ potential_heading_sizes = <<>>
    /\ clustered_sizes = <<>>
    /\ headings = <<>>
    /\ seen_headings = {}
    /\ bidx = 0
    /\ outline = [none |-> TRUE]
    /\ output_dir = <<>>
    /\ log = <<>>

\* A, A-macron (in two latin ranges), hiragana a, two ideographs of U+4E00..9FAF
\* (japanese and chinese), U+9FB0, U+3400 and U+20000 (chinese only), a hangul
\* syllable, alef, zhe, ka, ko kai, a space and the digit 1 (no script)
ScriptChars ==
    {65, 256, 12354, 20013, 40879, 40880, 13312, 131072, 44032, 1575, 1046, 2325, 3585,
     32, 49}

InitScript ==
    /\ Idle
    /\ call \in {[fn |-> "detect_script", text |-> t] : t \in SeqsUpTo(ScriptChars, MaxTextLen)}
    /\ ret = NoRet

DetectScript ==
    /\ call.fn = "detect_script"
    /\ ret = NoRet
    /\ ret' = Returned(detect_script(call.text))
    /\ UNCHANGED <<batch_vars, call>>

SpecScript == InitScript /\ [][DetectScript]_vars

\* sizes of 12 pt and between 20 and 24 pt; cluster_eps the default 1.0 pt or 1.5 pt
ClusterPool == {24, 40, 42, 43, 45, 46, 48}

InitCluster ==
    /\ Idle
    /\ call \in {[fn |-> "cluster_font_sizes", sizes |-> s, eps |-> e] :
                    s \in SeqsUpTo(ClusterPool, MaxSizes), e \in {2, 3}}
    /\ ret = NoRet

ClusterFontSizes ==
    /\ call.fn = "cluster_font_sizes"
    /\ ret = NoRet
    /\ ret' = Returned(cluster_font_sizes(call.sizes, call.eps))
    /\ UNCHANGED <<batch_vars, call>>

SpecCluster == InitCluster /\ [][ClusterFontSizes]_vars

\* tiers: the strictly descending lists of sizes 2 pt apart, from 2 pt up;
\* font sizes: every whole point from 0 to 2 pt above the largest tier
TierPool == {4 * k : k \in 1..MaxTiers}
FontPool == {2 * k : k \in 0..(2 * MaxTiers + 2)}

InitLevel ==
    /\ Idle
    /\ call \in {[fn |-> "get_heading_level", fontsize |-> f,
                  sizes |-> IntRs(SortedSetDesc(T)), is_bold |-> b] :
                    f \in FontPool, T \in SUBSET TierPool, b \in BOOLEAN}
    /\ ret = NoRet

GetHeadingLevel ==
    /\ call.fn = "get_heading_level"
    /\ ret = NoRet
    /\ ret' = Returned(get_heading_level(call.fontsize, call.sizes, call.is_bold, tol))
    /\ UNCHANGED <<batch_vars, call>>

SpecLevel == InitLevel /\ [][GetHeadingLevel]_vars

-----------------------------------------------------------------------------
(* Properties of detect_script *)

Scripts == Range(ScriptOrder)

\* how many characters of text lie in the ranges of script s
NumIn(text, s) == Cardinality({i \in 1..Len(text) : InRanges(text[i], script_ranges[s])})

\* the scripts with the highest count, when a character was counted at all
TopScripts(text) ==
    {s \in Scripts : NumIn(text, s) > 0 /\ \A r \in Scripts : NumIn(text, r) <= NumIn(text, s)}

DeclIndex(s) == CHOOSE k \in 1..Len(ScriptOrder) : ScriptOrder[k] = s

\* where the first character of script s stands in text
FirstPos(text, s) ==
    LET at == {i \in 1..Len(text) : InRanges(text[i], script_ranges[s])}
    IN  CHOOSE i \in at : \A j \in at : i <= j

EarliestDeclared(S) == CHOOSE s \in S : \A r \in S : DeclIndex(s) <= DeclIndex(r)

\* counted before: its first character comes first, and of two scripts first
\* counted at one character the one declared first
CountedBefore(text, s, r) ==
    \/ FirstPos(text, s) < FirstPos(text, r)
    \/ FirstPos(text, s) = FirstPos(text, r) /\ DeclIndex(s) <= DeclIndex(r)

FirstCounted(text, S) == CHOOSE s \in S : \A r \in S : CountedBefore(text, s, r)

DetectReturned == call.fn = "detect_script" /\ ret.returned

\* C8 as stated: when two or more scripts share the highest count, detect_script
\* returns the tied script declared earliest in the script order, whatever the
\* order of the characters.
C8_TieDeclaredOrder ==
    DetectReturned /\ Cardinality(TopScripts(call.text)) >= 2
        => ret.value = EarliestDeclared(TopScripts(call.text))

\* C8 as amended: when two or more scripts share the highest count, detect_script
\* returns the tied script that was counted first: the one whose first character
\* stands earliest in the text and, of scripts first counted at the same
\* character, the one declared earliest.
C8_TieFirstCounted ==
    DetectReturned /\ Cardinality(TopScripts(call.text)) >= 2
        => ret.value = FirstCounted(call.text, TopScripts(call.text))

\* a tie was decided for a script that is not the earliest declared of the tied
C8_Witness ==
    /\ DetectReturned
    /\ Cardinality(TopScripts(call.text)) >= 2
    /\ ret.value = FirstCounted(call.text, TopScripts(call.text))
    /\ ret.value # EarliestDeclared(TopScripts(call.text))

\* C9: detect_script returns one of the eight script tags; the script with
\* strictly more characters of the text than any other script when there is
\* one; and latin when the text is empty or no character is in any range.
C9_MajorityOrLatin ==
    DetectReturned =>
        /\ ret.value \in Scripts
        /\ \A s \in Scripts :
              (\A r \in Scripts \ {s} : NumIn(call.text, r) < NumIn(call.text, s))
                  => ret.value = s
        /\ (\A s \in Scripts : NumIn(call.text, s) = 0) => ret.value = "latin"

\* chinese won with strictly more characters than japanese, which has some
C9_Witness ==
    /\ DetectReturned
    /\ ret.value = "chinese"
    /\ NumIn(call.text, "japanese") > 0
    /\ \A r \in Scripts \ {"chinese"} : NumIn(call.text, r) < NumIn(call.text, "chinese")

-----------------------------------------------------------------------------
(* Properties of cluster_font_sizes *)

RECURSIVE SetSum(_)
SetSum(S) == IF S = {} THEN 0 ELSE LET x == CHOOSE y \in S : TRUE IN x + SetSum(S \ {x})

\* the least element of leaders that is no less than u
LeaderOf(u, leaders) ==
    LET above == {l \in leaders : l >= u} IN CHOOSE l \in above : \A m \in above : l <= m

\* leaders are the largest members of the groups of a descending scan of U: the
\* largest size leads, every size is within eps of its leader, and every other
\* leader is farther than eps from the leader before it
IsGrouping(U, leaders, eps) ==
    /\ leaders \subseteq U
    /\ \A u \in U : \E l \in leaders : l >= u
    /\ \A u \in U : LeaderOf(u, leaders) - u <= eps
    /\ \A l \in leaders :
          (\E m \in leaders : m > l) => LeaderOf(l + 1, leaders) - l > eps

GroupOf(l, U, leaders) == {u \in U : LeaderOf(u, leaders) = l}

GroupMean(l, U, leaders) ==
    Rat(SetSum(GroupOf(l, U, leaders)), Cardinality(GroupOf(l, U, leaders)))

ClusterReturned == call.fn = "cluster_font_sizes" /\ ret.returned

\* C7: cluster_font_sizes groups the distinct sizes, scanned in descending
\* order, so that every member is within eps of its group's largest member, and
\* returns the mean of each group: strictly descending, as long as there are
\* groups, empty for an empty input, the value itself for one distinct value.
C7_ClusterMeans ==
    ClusterReturned =>
        LET U == Range(call.sizes)
            R == ret.value
        IN  /\ \E leaders \in SUBSET U :
                  /\ IsGrouping(U, leaders, call.eps)
                  /\ Len(R) = Cardinality(leaders)
                  /\ \A k \in 1..Len(R) :
                        R[k] = GroupMean(SortedSetDesc(leaders)[k], U, leaders)
            /\ \A k \in 1..(Len(R) - 1) : RLt(R[k + 1], R[k])
            /\ call.sizes = <<>> => R = <<>>
            /\ Cardinality(U) = 1 => R = <<IntR(CHOOSE v \in U : TRUE)>>

\* three sizes in a first group whose smallest is within eps of the next size,
\* which starts the second group all the same
C7_Witness ==
    /\ ClusterReturned
    /\ Len(ret.value) = 2
    /\ Range(call.sizes) = {48, 46, 45, 43}
    /\ call.eps = 3
    /\ ret.value = <<Rat(139, 3), IntR(43)>>

-----------------------------------------------------------------------------
(* Properties of get_heading_level *)

\* |fontsize - sizes[i]| for the 0-based index i
DiffAt(fontsize, sizes, i) == RAbs(RSub(IntR(fontsize), sizes[i + 1]))

\* the 0-based index of the nearest tier: the first of those at the least distance
NearestIdx(fontsize, sizes) ==
    CHOOSE i \in 0..(Len(sizes) - 1) :
        /\ \A j \in 0..(Len(sizes) - 1) :
              RLe(DiffAt(fontsize, sizes, i), DiffAt(fontsize, sizes, j))
        /\ \A j \in 0..(i - 1) : RLt(DiffAt(fontsize, sizes, i), DiffAt(fontsize, sizes, j))

WithinTol(fontsize, sizes) ==
    RLe(DiffAt(fontsize, sizes, NearestIdx(fontsize, sizes)), IntR(tol))

\* bold and fontsize >= mean of the tiers - 1 pt: Len * (fontsize + 2) >= sum
BoldAndLarge(fontsize, sizes, is_bold) ==
    is_bold /\ RLe(RSum(sizes), IntR(Len(sizes) * (fontsize + 2)))

LevelReturned == call.fn = "get_heading_level" /\ ret.returned

\* C5 as stated: within tolerance of the nearest tier the level is H1 for index
\* 0, H2 for index 1, H3 for index 2 to 4 and none for index 5 or more, bold or
\* not; outside tolerance it is H3 for a bold line of size >= mean - 1 and none
\* otherwise.
C5_LevelCloseTierOnly ==
    LevelReturned /\ call.sizes # <<>> =>
        LET f == call.fontsize
            idx == NearestIdx(f, call.sizes)
        IN  ret.value =
                IF WithinTol(f, call.sizes)
                THEN (IF idx = 0 THEN "H1" ELSE IF idx = 1 THEN "H2"
                      ELSE IF idx <= 4 THEN "H3" ELSE None)
                ELSE (IF BoldAndLarge(f, call.sizes, call.is_bold) THEN "H3" ELSE None)

\* C5 as amended: within tolerance of the nearest tier the level is H1 for index
\* 0, H2 for index 1 and H3 for index 2 to 4; for a nearest tier of index 5 or
\* more, and outside tolerance of every tier, it is H3 for a bold line of size
\* >= mean - 1 and none otherwise; without tiers it is none.
C5_LevelOrBold ==
    LevelReturned =>
        LET f == call.fontsize
        IN  ret.value =
                IF call.sizes = <<>> THEN None
                ELSE IF WithinTol(f, call.sizes) /\ NearestIdx(f, call.sizes) = 0 THEN "H1"
                ELSE IF WithinTol(f, call.sizes) /\ NearestIdx(f, call.sizes) = 1 THEN "H2"
                ELSE IF WithinTol(f, call.sizes) /\ NearestIdx(f, call.sizes) <= 4 THEN "H3"
                ELSE IF BoldAndLarge(f, call.sizes, call.is_bold) THEN "H3"
                ELSE None

\* a bold line at the sixth tier or a later one, large enough, was made an H3
C5_Witness ==
    /\ LevelReturned
    /\ call.sizes # <<>>
    /\ WithinTol(call.fontsize, call.sizes)
    /\ NearestIdx(call.fontsize, call.sizes) >= 5
    /\ call.is_bold
    /\ ret.value = "H3"

-----------------------------------------------------------------------------
(* Properties of extract_outline_from_pdf *)

\* the trimmed, lower-cased text
Folded(text) == Lower(Strip(text))

\* line i was accepted as a candidate and classifies to a level
Qualifies(i) ==
    /\ IsCandidate(all_text_blocks[i], all_font_sizes)
    /\ get_heading_level(all_text_blocks[i].fontsize, clustered_sizes,
                         all_text_blocks[i].is_bold, tol) # None

\* line i is the first qualifying line of its folded text
FirstQualifying(i) ==
    /\ Qualifies(i)
    /\ \A j \in 1..(i - 1) :
          Qualifies(j) => Folded(all_text_blocks[j].text) # Folded(all_text_blocks[i].text)

HeadingOfLine(i) ==
    [level |-> get_heading_level(all_text_blocks[i].fontsize, clustered_sizes,
                                 all_text_blocks[i].is_bold, tol),
     text |-> Strip(all_text_blocks[i].text),
     page |-> all_text_blocks[i].page]

\* extract_outline_from_pdf has just returned
OutlineReturned == pc = "write"

NumLevel(hs, level) == Cardinality({i \in 1..Len(hs) : hs[i].level = level})

\* C1: no two headings of a returned outline have the same trimmed, lower-cased
\* text, and each heading is the first line in extraction order of that text
\* that was accepted as a candidate and received a level.
C1_FirstOccurrenceWins ==
    OutlineReturned =>
        LET hs == outline.outline
        IN  /\ \A i, j \in 1..Len(hs) : Folded(hs[i].text) = Folded(hs[j].text) => i = j
            /\ \A i \in 1..Len(hs) :
                  \E k \in 1..Len(all_text_blocks) :
                      FirstQualifying(k) /\ hs[i] = HeadingOfLine(k)

\* a text that qualifies on two pages is in the outline once, at the first page
C1_Witness ==
    /\ OutlineReturned
    /\ \E k, m \in 1..Len(all_text_blocks) :
          /\ k < m
          /\ all_text_blocks[k].page < all_text_blocks[m].page
          /\ Folded(all_text_blocks[k].text) = Folded(all_text_blocks[m].text)
          /\ all_text_blocks[k].text # all_text_blocks[m].text
          /\ FirstQualifying(k)
          /\ Qualifies(m)
          /\ \E i \in 1..Len(outline.outline) : outline.outline[i] = HeadingOfLine(k)

\* the first n headings of a level, in the order of hs
FirstN(hs, level, n) ==
    {hs[i] : i \in {k \in 1..Len(hs) :
                       /\ hs[k].level = level
                       /\ Cardinality({j \in 1..(k - 1) : hs[j].level = level}) < n}}

\* C2: the cap step keeps a list of 30 or fewer headings as it is, and reduces a
\* longer one to exactly its first 5 H1s, first 10 H2s and first 15 H3s; what is
\* returned is that list, so an outline has at most 30 headings.
C2_CapAt30 ==
    [][/\ pc = "cap" =>
            /\ Len(headings') <= 30
            /\ Len(headings) <= 30 => headings' = headings
            /\ Len(headings) > 30 =>
                  /\ Range(headings') = FirstN(headings, "H1", 5)
                                            \cup FirstN(headings, "H2", 10)
                                            \cup FirstN(headings, "H3", 15)
                  /\ Len(headings') = Cardinality(Range(headings'))
                  /\ NumLevel(headings', "H1") <= 5
                  /\ NumLevel(headings', "H2") <= 10
                  /\ NumLevel(headings', "H3") <= 15
       /\ pc = "return" => outline'.outline = headings /\ Len(headings) <= 30]_vars

\* more than 30 headings survived, with more than 5 H1s and fewer than 15 H3s,
\* and the outline holds 5 H1s, 10 H2s and the H3s
C2_Witness ==
    /\ OutlineReturned
    /\ Cardinality(seen_headings) > 30
    /\ Cardinality({k \in 1..Len(all_text_blocks) :
                       FirstQualifying(k) /\ HeadingOfLine(k).level = "H1"}) > 5
    /\ NumLevel(outline.outline, "H1") = 5
    /\ NumLevel(outline.outline, "H2") = 10
    /\ NumLevel(outline.outline, "H3") \in 1..14

\* C3: in a returned outline the pages do not decrease, and on one page every
\* H1 precedes every H2 and every H2 precedes every H3.
C3_PageThenLevel ==
    OutlineReturned =>
        LET hs == outline.outline
        IN  \A i, j \in 1..Len(hs) :
                i < j =>
                    /\ hs[i].page <= hs[j].page
                    /\ hs[i].page = hs[j].page
                          => LevelRank(hs[i].level) <= LevelRank(hs[j].level)

\* a capped outline with an H1 before an H3 of the same page, whose lines came
\* in the other order
C3_Witness ==
    /\ OutlineReturned
    /\ Cardinality(seen_headings) > 30
    /\ \E i, j \in 1..Len(outline.outline) :
          /\ i < j
          /\ outline.outline[i].page = outline.outline[j].page
          /\ outline.outline[i].level = "H1"
          /\ outline.outline[j].level = "H3"
          /\ \E k, m \in 1..Len(all_text_blocks) :
                /\ k < m
                /\ HeadingOfLine(k) = outline.outline[j]
                /\ HeadingOfLine(m) = outline.outline[i]

\* the tiers are computed and a line was extracted
TiersReady == pc \in {"scan", "cap", "return", "write"} /\ all_text_blocks # <<>>

\* C6: for a document with at least one line the tiers used for classification
\* are at least 3, strictly descending; [s, s - 1, s - 2] when every line has
\* the size s, and [a, b, b - 1] when the sizes are exactly a > b (1 pt is 2).
C6_Tiers ==
    TiersReady =>
        LET t == clustered_sizes
            S == Range(all_font_sizes)
        IN  /\ Len(t) >= 3
            /\ \A k \in 1..(Len(t) - 1) : RLt(t[k + 1], t[k])
            /\ \A s \in S : S = {s} => t = <<<<s, 1>>, <<s - 2, 1>>, <<s - 4, 1>>>>
            /\ \A a, b \in S :
                  S = {a, b} /\ a > b => t = <<<<a, 1>>, <<b, 1>>, <<b - 2, 1>>>>

\* a document of exactly two sizes got the third tier one point under the second
C6_Witness ==
    /\ TiersReady
    /\ \E a, b \in Range(all_font_sizes) :
          /\ a > b
          /\ Range(all_font_sizes) = {a, b}
          /\ clustered_sizes = <<<<a, 1>>, <<b, 1>>, <<b - 2, 1>>>>

-----------------------------------------------------------------------------
(* Properties of process_all_pdfs *)

\* the name ends in .pdf, in any case
EndsInPdf(name) ==
    /\ Len(name) >= 4
    /\ Lower(SubSeq(name, Len(name) - 3, Len(name))) = DotPdf

\* the files of the input directory to process, in listing order
Expected == SelectSeq([i \in 1..Len(dir) |-> dir[i].name], EndsInPdf)

LogFiles(kinds) ==
    LET entries == SelectSeq(log, LAMBDA e : e.kind \in kinds)
    IN  [i \in 1..Len(entries) |-> entries[i].file]

Attempts == LogFiles({"processing"})

Outcomes == LogFiles({"ok", "error"})

IsPrefix(s, t) == Len(s) <= Len(t) /\ s = SubSeq(t, 1, Len(s))

\* the output directory holds the complete outline of filename
Written(filename) ==
    \E k \in 1..Len(output_dir) :
        /\ output_dir[k].name = SplitextRoot(filename) \o DotJson
        /\ "outline" \in DOMAIN output_dir[k].data

\* C4: the files ending in .pdf are attempted once each in listing order; each
\* attempt ends in one success line, with <name>.json written, or one error
\* line; an error never ends the loop: the run stops only when every file has
\* been attempted and has its outcome.
C4_BatchContinues ==
    /\ IsPrefix(Attempts, Expected)
    /\ IsPrefix(Outcomes, Attempts)
    /\ Len(Attempts) - Len(Outcomes) \in {0, 1}
    /\ \A k \in 1..Len(log) : log[k].kind = "ok" => Written(log[k].file)
    /\ pc = "done" => Attempts = Expected /\ Outcomes = Expected
    /\ pc = "loop" => Outcomes = Attempts /\ fidx = Len(Attempts) + 1

\* the run is over, and a file was written after an earlier file failed
C4_Witness ==
    /\ pc = "done"
    /\ \E i, j \in 1..Len(log) :
          /\ i < j
          /\ log[i].kind = "error"
          /\ log[j].kind = "ok"
          /\ log[i].file # log[j].file
          /\ Written(log[j].file)
          /\ ~Written(log[i].file)

\* the outlines produced so far, each with its file
Produced ==
    {<<SplitextRoot(f), output_dir[k].data>> :
        <<f, k>> \in {p \in Range(pdf_files) \X (1..Len(output_dir)) :
                         /\ output_dir[p[2]].name = SplitextRoot(p[1]) \o DotJson
                         /\ "outline" \in DOMAIN output_dir[p[2]].data}}
    \cup (IF pc = "write" THEN {<<SplitextRoot(pdf_files[fidx]), outline>>} ELSE {})

FileOfRoot(root) == CHOOSE f \in Range(pdf_files) : SplitextRoot(f) = root

\* C10: in one batch, two documents of the same content get the same headings,
\* and the same outline when the title is the metadata's, whatever was processed
\* before each of them and whether it failed.
C10_Stateless ==
    \A p, q \in Produced :
        LET cp == ContentOf(FileOfRoot(p[1]))
            cq == ContentOf(FileOfRoot(q[1]))
        IN  cp = cq =>
                /\ p[2].outline = q[2].outline
                /\ Strip(cp.title) # <<>> => p[2] = q[2]

\* the same document first in the batch and again after a file that failed
C10_Witness ==
    /\ Len(pdf_files) = 3
    /\ ContentOf(pdf_files[1]) = ContentOf(pdf_files[3])
    /\ ContentOf(pdf_files[2]) = Corrupt
    /\ \E p, q \in Produced :
          /\ p[1] = SplitextRoot(pdf_files[1])
          /\ q[1] = SplitextRoot(pdf_files[3])
          /\ p[2].outline # <<>>
          /\ p[2].outline = q[2].outline
    /\ \E k \in 1..Len(log) : log[k].kind = "error" /\ log[k].file = pdf_files[2]

-----------------------------------------------------------------------------
(* Empty results, and what is let into an outline *)

\* the document being processed was opened, and its lines are extracted
DocRead ==
    /\ pc \in {"cluster", "outliers", "force", "scan", "cap", "return", "write", "except"}
    /\ ContentOf(pdf_files[fidx]) # Corrupt

\* the loop over the lines is over
ScanDone == pc \in {"cap", "return", "write", "except"} /\ DocRead

\* the value at the 0-based rank floor(n * p / 100) of the n sizes in ascending
\* order (the last one when the rank is n)
RankValue(sizes, p) ==
    LET n == Len(sizes)
        r == IF (n * p) \div 100 < n THEN (n * p) \div 100 ELSE n - 1
    IN  CHOOSE v \in Range(sizes) :
            /\ Cardinality({i \in 1..n : sizes[i] < v}) <= r
            /\ Cardinality({i \in 1..n : sizes[i] <= v}) > r

\* line i is heading-plausible
Plausible(i) == is_likely_heading(all_text_blocks[i].text)

\* the size of line i is above the 70th-percentile rank of the document's sizes
SizeOutlier(i) == all_text_blocks[i].fontsize > RankValue(all_font_sizes, 70)

Accepted(i) == Plausible(i) \/ SizeOutlier(i)

\* the classifier gives line i a level: a tier of index 0 to 4 within tolerance,
\* or the bold branch
Levelled(i) ==
    LET b == all_text_blocks[i]
    IN  /\ clustered_sizes # <<>>
        /\ \/ /\ WithinTol(b.fontsize, clustered_sizes)
              /\ NearestIdx(b.fontsize, clustered_sizes) <= 4
           \/ BoldAndLarge(b.fontsize, clustered_sizes, b.is_bold)

Lines == 1..Len(all_text_blocks)

NoLines == all_text_blocks = <<>>

NoCandidate == ~NoLines /\ \A i \in Lines : ~Accepted(i)

NoLevel == (\E i \in Lines : Accepted(i)) /\ \A i \in Lines : Accepted(i) => ~Levelled(i)

\* the title of the document being processed
TitleOfDoc ==
    LET meta == Strip(ContentOf(pdf_files[fidx]).title)
    IN  IF meta # <<>> THEN meta ELSE SplitextRoot(pdf_files[fidx])

\* C11: for a document with no lines, or no accepted line, or no accepted line
\* that gets a level, the scan ends with no heading and the call returns the
\* title with an empty outline; the only exception then is one of the write
\* that follows the return.
C11_EmptyOutline ==
    (ScanDone /\ (NoLines \/ NoCandidate \/ NoLevel)) =>
        /\ headings = <<>>
        /\ pc \in {"write", "except"} => outline = [title |-> TitleOfDoc, outline |-> <<>>]

\* a returned empty outline for a document whose only accepted line gets no level
C11_Witness ==
    /\ pc = "write"
    /\ DocRead
    /\ NoLevel
    /\ outline = [title |-> TitleOfDoc, outline |-> <<>>]


\* C12: every heading of a returned outline is the heading of a line that is
\* heading-plausible or of a size above the 70th-percentile rank, and that gets
\* a level; so the text of a line that is neither is in the outline only as the
\* text of another, accepted line.
C12_OnlyAccepted ==
    OutlineReturned =>
        \A k \in 1..Len(outline.outline) :
            \E i \in Lines :
                /\ Accepted(i)
                /\ Levelled(i)
                /\ outline.outline[k] = HeadingOfLine(i)

\* an outline with a heading, of a document with a line that is not accepted,
\* would get a level, and whose text is not in the outline
C12_Witness ==
    /\ OutlineReturned
    /\ outline.outline # <<>>
    /\ \E i \in Lines :
          /\ ~Plausible(i)
          /\ ~SizeOutlier(i)
          /\ Levelled(i)
          /\ \A k \in 1..Len(outline.outline) :
                Folded(outline.outline[k].text) # Folded(all_text_blocks[i].text)

-----------------------------------------------------------------------------
(* detect_script on ideographs *)

\* U+4E00..U+9FAF: in a japanese and in a chinese range
SharedIdeograph(cp) == 19968 <= cp /\ cp <= 40879

\* U+9FB0..U+9FFF, U+3400..U+4DBF, U+20000..U+2A6DF: in a chinese range only
ChineseOnly(cp) ==
    \/ 40880 <= cp /\ cp <= 40959
    \/ 13312 <= cp /\ cp <= 19903
    \/ 131072 <= cp /\ cp <= 173791

\* C13: detect_script returns chinese only for a text with a character of
\* U+9FB0..U+9FFF, U+3400..U+4DBF or U+20000..U+2A6DF; without one, every
\* character counted for chinese is of U+4E00..U+9FAF and is counted for
\* japanese too.
C13_ChineseNeedsOwnRange ==
    DetectReturned =>
        LET text == call.text
            own == {i \in 1..Len(text) : ChineseOnly(text[i])}
            shared == {i \in 1..Len(text) : SharedIdeograph(text[i])}
        IN  /\ ret.value = "chinese" => own # {}
            /\ own = {} =>
                  /\ NumIn(text, "chinese") = Cardinality(shared)
                  /\ NumIn(text, "japanese") >= NumIn(text, "chinese")

\* a text of ideographs of U+4E00..U+9FAF alone, at a tie of japanese and
\* chinese, came back as japanese
C13_Witness ==
    /\ DetectReturned
    /\ Len(call.text) >= 2
    /\ \A i \in 1..Len(call.text) : SharedIdeograph(call.text[i])
    /\ NumIn(call.text, "chinese") = NumIn(call.text, "japanese")
    /\ ret.value = "japanese"

====
